---- MODULE Spec2Model ----
(***************************************************************************)
(* Cookie consent management of src/js/cookies.js.                         *)
(*                                                                         *)
(* The file holds two CookieManager classes: the "GDPR-compliant" one      *)
(* (lines 6-409, record version '2.0', script catalogue and session flag)  *)
(* and an older one (lines 427-900, record version '1.0', tracking         *)
(* snippets).  A page runs one of them; variable `variant` says which.     *)
(*                                                                         *)
(* JavaScript strings are modelled as sequences of tokens: a token is a    *)
(* punctuation character ("{", "\"", ":", ",", ";", "=", " ", "%"), a       *)
(* percent escape ("%7B") or a run of unreserved characters ("accepted").  *)
(***************************************************************************)
EXTENDS Integers, Sequences, FiniteSets, TLC

(***************************************************************************)
(* JavaScript values: a type tag and, for strings, the tokens.             *)
(***************************************************************************)
Null == [t |-> "null", v |-> <<>>]

Undefined == [t |-> "undefined", v |-> <<>>]

Str(s) == [t |-> "string", v |-> s]

Num(tok) == [t |-> "number", v |-> <<tok>>]

Bool(tok) == [t |-> "boolean", v |-> <<tok>>]

Obj == [t |-> "object", v |-> <<>>]

\* An exception propagating out of a call.
Thrown(e) == [t |-> "throw", v |-> <<e>>]

\* No object: the place of an instance that was never constructed.
NoInstance == [t |-> "none", v |-> <<>>]

ACCEPTED == Str(<<"accepted">>)

DECLINED == Str(<<"declined">>)

(***************************************************************************)
(* encodeURIComponent / decodeURIComponent                                 *)
(***************************************************************************)
ReservedChars == {"{", "}", "\"", ":", ",", ";", "=", " ", "%", "/"}

EscapeOf(c) ==
    CASE c = "{" -> "%7B"
      [] c = "}" -> "%7D"
      [] c = "\"" -> "%22"
      [] c = ":" -> "%3A"
      [] c = "," -> "%2C"
      [] c = ";" -> "%3B"
      [] c = "=" -> "%3D"
      [] c = " " -> "%20"
      [] c = "%" -> "%25"
      [] c = "/" -> "%2F"

Escapes == {EscapeOf(c) : c \in ReservedChars}

UnescapeOf(e) == CHOOSE c \in ReservedChars : EscapeOf(c) = e

\* A "%" that is not followed by two hexadecimal digits.
MalformedEscapes == {"%", "%ZZ"}

encodeURIComponent(s) ==
    [i \in 1..Len(s) |-> IF s[i] \in ReservedChars THEN EscapeOf(s[i]) ELSE s[i]]

\* Mutant: the stored value is returned as read, escapes and all.
decodeURIComponent_raw(s) == Str(s)

decodeURIComponent(s) ==
    IF \E i \in 1..Len(s) : s[i] \in MalformedEscapes
    THEN Thrown("URIError")
    ELSE Str([i \in 1..Len(s) |-> IF s[i] \in Escapes THEN UnescapeOf(s[i]) ELSE s[i]])

(***************************************************************************)
(* JSON.stringify of the consent record and JSON.parse                     *)
(***************************************************************************)
Quote(s) == <<"\"">> \o s \o <<"\"">>

\* new Date().toISOString() at clock reading `now` (a seconds token).
toISOString(now) == <<"2026-11-01T10", ":", "00", ":", now, ".000Z">>

\* JSON.stringify({status: status, timestamp: timestamp, version: version})
JSONstringify(status, timestamp, version) ==
    <<"{">> \o Quote(<<"status">>) \o <<":">> \o Quote(status) \o <<",">>
            \o Quote(<<"timestamp">>) \o <<":">> \o Quote(timestamp) \o <<",">>
            \o Quote(<<"version">>) \o <<":">> \o Quote(version) \o <<"}">>

ParseFail == [ok |-> FALSE, val |-> Undefined, members |-> <<>>, next |-> 0]

NumberTokens == {"0", "1", "42"}

RECURSIVE FindQuote(_, _)
\* Index of the first quote at or after i, 0 when there is none.
FindQuote(s, i) ==
    IF i > Len(s) THEN 0
    ELSE IF s[i] = "\"" THEN i
    ELSE FindQuote(s, i + 1)

\* A string literal starting at the quote s[i].
ParseString(s, i) ==
    LET j == FindQuote(s, i + 1)
    IN  IF j = 0 THEN ParseFail
        ELSE [ok |-> TRUE, val |-> Str(SubSeq(s, i + 1, j - 1)),
              members |-> <<>>, next |-> j + 1]

RECURSIVE ParseValue(_, _)
RECURSIVE ParseMembers(_, _, _)
\* The members of an object from position i on: "key":value (,"key":value)* }
ParseMembers(s, i, acc) ==
    IF i > Len(s) \/ s[i] # "\"" THEN ParseFail
    ELSE LET k == ParseString(s, i)
         IN  IF ~k.ok \/ k.next > Len(s) \/ s[k.next] # ":" THEN ParseFail
             ELSE LET x == ParseValue(s, k.next + 1)
                      acc2 == Append(acc, [k |-> k.val.v, val |-> x.val])
                  IN  IF ~x.ok \/ x.next > Len(s) THEN ParseFail
                      ELSE IF s[x.next] = "}"
                      THEN [ok |-> TRUE, val |-> Obj, members |-> acc2,
                            next |-> x.next + 1]
                      ELSE IF s[x.next] = ","
                      THEN ParseMembers(s, x.next + 1, acc2)
                      ELSE ParseFail

\* A JSON value starting at position i (nested objects keep only their type).
ParseValue(s, i) ==
    IF i > Len(s) THEN ParseFail
    ELSE IF s[i] = "\"" THEN ParseString(s, i)
    ELSE IF s[i] = "null"
    THEN [ok |-> TRUE, val |-> Null, members |-> <<>>, next |-> i + 1]
    ELSE IF s[i] \in {"true", "false"}
    THEN [ok |-> TRUE, val |-> Bool(s[i]), members |-> <<>>, next |-> i + 1]
    ELSE IF s[i] \in NumberTokens
    THEN [ok |-> TRUE, val |-> Num(s[i]), members |-> <<>>, next |-> i + 1]
    ELSE IF s[i] = "{"
    THEN IF i + 1 <= Len(s) /\ s[i + 1] = "}"
         THEN [ok |-> TRUE, val |-> Obj, members |-> <<>>, next |-> i + 2]
         ELSE ParseMembers(s, i + 1, <<>>)
    ELSE ParseFail

\* JSON.parse(text): ok = FALSE stands for a SyntaxError.
JSONparse(s) ==
    LET r == ParseValue(s, 1)
    IN  IF r.ok /\ r.next = Len(s) + 1 THEN r ELSE ParseFail

RECURSIVE LookupLast(_, _, _)
\* The value of the last member named k among the first n, Undefined if none.
LookupLast(members, k, n) ==
    IF n = 0 THEN Undefined
    ELSE IF members[n].k = k THEN members[n].val
    ELSE LookupLast(members, k, n - 1)

\* consentData.status for a parsed value; reading a property of null throws.
StatusOf(parsed) ==
    IF parsed.val.t = "null" THEN Thrown("TypeError")
    ELSE IF parsed.val.t = "object"
    THEN LookupLast(parsed.members, <<"status">>, Len(parsed.members))
    ELSE Undefined

(***************************************************************************)
(* The cookie store: document.cookie and the cookie helpers                *)
(*                                                                         *)
(* The browser's jar is a sequence of [name, value] entries for path "/",  *)
(* oldest first; value is the raw (still encoded) token sequence.          *)
(***************************************************************************)
cookieName == "cookie-consent"

cookieExpiry == 365

\* The date deleteCookie writes: the epoch, always in the past.
EpochUTC == "Thu, 01 Jan 1970 00:00:00 UTC"

\* expires.toUTCString() for a date `days` days after now.
toUTCString(days) == IF days > 0 THEN "now+" \o ToString(days) \o "d" ELSE EpochUTC

RECURSIVE IndexOf(_, _, _)
\* Index of the first token tok at or after i, 0 when there is none.
IndexOf(s, tok, i) ==
    IF i > Len(s) THEN 0
    ELSE IF s[i] = tok THEN i
    ELSE IndexOf(s, tok, i + 1)

RECURSIVE SplitOn(_, _)
\* String.prototype.split(sep): the pieces between the separators.
SplitOn(s, sep) ==
    LET i == IndexOf(s, sep, 1)
    IN  IF i = 0 THEN <<s>>
        ELSE <<SubSeq(s, 1, i - 1)>> \o SplitOn(SubSeq(s, i + 1, Len(s)), sep)

RECURSIVE StripLeadingSpaces(_)
\* while (c.charAt(0) === ' ') c = c.substring(1, c.length)
StripLeadingSpaces(c) ==
    IF Len(c) > 0 /\ c[1] = " " THEN StripLeadingSpaces(Tail(c)) ELSE c

RECURSIVE DocumentCookie(_)
\* Reading document.cookie: "name=value; name=value".
DocumentCookie(jar) ==
    IF Len(jar) = 0 THEN <<>>
    ELSE <<jar[1].name, "=">> \o jar[1].value
         \o (IF Len(jar) = 1 THEN <<>> ELSE <<";", " ">> \o DocumentCookie(Tail(jar)))

RECURSIVE GetCookieLoop(_, _, _)
\* The for loop of getCookie over the pieces ca, from index i.
GetCookieLoop(ca, i, name) ==
    IF i > Len(ca) THEN Null
    ELSE LET c == StripLeadingSpaces(ca[i])
         IN  IF Len(c) >= 2 /\ c[1] = name /\ c[2] = "="
             THEN decodeURIComponent(SubSeq(c, 3, Len(c)))
             ELSE GetCookieLoop(ca, i + 1, name)

\* getCookie(name): a string, null, or a thrown URIError.
getCookie(jar, name) == GetCookieLoop(SplitOn(DocumentCookie(jar), ";"), 1, name)

RECURSIVE ExpiresAttr(_, _)
\* The date of the expires attribute among the pieces from index i, "" if none.
ExpiresAttr(parts, i) ==
    IF i > Len(parts) THEN ""
    ELSE LET a == StripLeadingSpaces(parts[i])
         IN  IF Len(a) = 3 /\ a[1] = "expires" /\ a[2] = "="
             THEN a[3]
             ELSE ExpiresAttr(parts, i + 1)

RECURSIVE RemoveEntry(_, _)
RemoveEntry(jar, name) ==
    IF Len(jar) = 0 THEN <<>>
    ELSE IF jar[1].name = name THEN RemoveEntry(Tail(jar), name)
    ELSE <<jar[1]>> \o RemoveEntry(Tail(jar), name)

\* Assigning document.cookie = cs: the browser stores, replaces or (when the
\* expires date has passed) removes the named cookie.
AssignDocumentCookie(jar, cs) ==
    LET parts == SplitOn(cs, ";")
        pair == parts[1]
        name == pair[1]
        value == SubSeq(pair, 3, Len(pair))
        expires == ExpiresAttr(parts, 2)
    IN  IF expires = EpochUTC THEN RemoveEntry(jar, name)
        ELSE IF \E i \in 1..Len(jar) : jar[i].name = name
        THEN [i \in 1..Len(jar) |->
                 IF jar[i].name = name THEN [name |-> name, value |-> value]
                 ELSE jar[i]]
        ELSE Append(jar, [name |-> name, value |-> value])

\* The string setCookie builds (lines 180-184).
CookieString(name, value, days, https) ==
    <<name, "=">> \o encodeURIComponent(value)
        \o <<";", " ", "expires", "=", toUTCString(days)>>
        \o <<";", " ", "path", "=", "/", ";", " ", "SameSite", "=", "Lax">>
        \o (IF https THEN <<";", " ", "Secure">> ELSE <<>>)

\* setCookie(name, value, days): the jar afterwards and whether it threw.  The
\* older class declares cookieString const and appends to it on https pages,
\* which throws a TypeError before document.cookie is assigned.
setCookie(v, jar, name, value, days, https) ==
    IF v = "legacy" /\ https
    THEN [jar |-> jar, threw |-> TRUE]
    ELSE [jar |-> AssignDocumentCookie(jar, CookieString(name, value, days, https)),
          threw |-> FALSE]

\* deleteCookie(name)
deleteCookie(jar, name) ==
    AssignDocumentCookie(jar,
        <<name, "=", ";", " ", "expires", "=", EpochUTC,
          ";", " ", "path", "=", "/", ";">>)

\* getConsentStatus(): the stored status, null, or a thrown URIError.
getConsentStatus(jar) ==
    LET cookieValue == getCookie(jar, cookieName)
    IN  IF cookieValue.t = "throw" THEN cookieValue
        ELSE IF cookieValue.t = "null" \/ cookieValue.v = <<>> THEN Null
        ELSE LET consentData == JSONparse(cookieValue.v)
             IN  IF ~consentData.ok THEN Null
                 ELSE IF StatusOf(consentData).t = "throw" THEN Null
                 ELSE StatusOf(consentData)

\* The record version each class writes.
RecordVersion(v) == IF v = "gdpr" THEN <<"2.0">> ELSE <<"1.0">>

(***************************************************************************)
(* State                                                                   *)
(***************************************************************************)
VARIABLES
    variant,        \* "gdpr": the class of lines 6-409; "legacy": lines 427-900
    https,          \* window.location.protocol === 'https:'
    jar,            \* the browser's cookies (persist across pages and sessions)
    sessionStorage, \* sessionStorage['cookie-banner-shown']: null or 'true'
    phase,          \* "parsed": before DOMContentLoaded; "live": after it
    hasBanner,      \* the page has the #cookie-banner element and its buttons
    bannerShow,     \* the banner's class list contains 'show'
    listening,      \* setupEventListeners ran: the handlers hold the instance
    exposed,        \* window.cookieManager holds the instance
    consentStatus,  \* this.consentStatus (Undefined while no instance exists)
    scripts,        \* the document's script elements, in insertion order
    fbq,            \* window.fbq is defined (legacy Facebook pixel stub)
    requestLog,     \* history: the load requests of the last step, each with
                    \* the in-memory decision at the moment of the request
    dispatched,     \* cookieConsentChanged events dispatched by the last step,
                    \* each with what a listener reads at that moment
    setCalls,       \* history: setConsentStatus calls made by the last step
    other,          \* this.consentStatus of a second instance a page script
                    \* constructed (NoInstance while there is none)
    lastCall,       \* history: the operation the last step performed
    lastDecision,   \* history: what the latest decision event asked for
    shownUnset,     \* history: in this session the banner has gone from
                    \* Hidden to Shown while no decision existed
    shownByInit     \* history: ... and a page's initialisation did that

vars == <<variant, https, jar, sessionStorage, phase, hasBanner, bannerShow,
          listening, exposed, consentStatus, scripts, fbq, requestLog,
          dispatched, setCalls, other, lastCall, lastDecision, shownUnset,
          shownByInit>>

\* Cap on the analytics script elements of a page (the legacy class injects
\* the script again on every accept).
MaxInjections == 2

\* Clock readings a write may see (the seconds of the timestamp).
Clock == {"05", "30"}

(***************************************************************************)
(* The script catalogue (lines 17-22) and the legacy tracking snippets     *)
(***************************************************************************)
scriptCategories ==
    [essential |-> <<"js/main.js", "js/cookies.js">>,
     analytics |-> <<"js/analytics.js", "js/3d-scene.js", "js/testimonials.js">>,
     marketing |-> <<"js/tracking.js">>,
     external  |-> <<"https://cdnjs.cloudflare.com/ajax/libs/three.js/r128/three.min.js",
                     "https://unpkg.com/leaflet@1.9.4/dist/leaflet.js">>]

Categories == {"essential", "analytics", "marketing", "external"}

NonEssential == Categories \ {"essential"}

Range(f) == {f[i] : i \in DOMAIN f}

GoogleAnalyticsSrc == "https://www.googletagmanager.com/gtag/js?id=GA_MEASUREMENT_ID"

FacebookPixelSrc == "https://connect.facebook.net/en_US/fbevents.js"

\* A script element of the document.  state: "static" (from the page markup),
\* "loading", "loaded" or "failed".
ScriptElement(src, category, state) ==
    [src |-> src, category |-> category, state |-> state, blocked |-> FALSE]

Static(src) == ScriptElement(src, "markup", "static")

\* The script tags a page's markup may carry.  The first page has main.js and
\* most of the catalogue in its markup (accepting injects analytics.js and
\* leaflet); the second lacks main.js and three.js.
Markups ==
    { <<Static("js/main.js"), Static("js/cookies.js"), Static("js/3d-scene.js"),
        Static("js/testimonials.js"),
        Static("https://cdnjs.cloudflare.com/ajax/libs/three.js/r128/three.min.js")>>,
      <<Static("js/cookies.js"), Static("js/analytics.js"),
        Static("js/3d-scene.js"), Static("js/testimonials.js"),
        Static("https://unpkg.com/leaflet@1.9.4/dist/leaflet.js")>> }

(***************************************************************************)
(* Cookie jars a visit may start from                                      *)
(***************************************************************************)
ThemeCookie == [name |-> "theme", value |-> <<"dark">>]

ConsentCookie(raw) == [name |-> cookieName, value |-> raw]

\* The record a previous visit stored.
StoredRecord(status, version) ==
    encodeURIComponent(JSONstringify(<<status>>, toISOString("05"), version))

\* JSON text {"status":"<status>"}
StatusOnly(status) ==
    <<"{">> \o Quote(<<"status">>) \o <<":">> \o Quote(<<status>>) \o <<"}">>

JarAccepted == <<ConsentCookie(StoredRecord("accepted", <<"2.0">>))>>

JarDeclined == <<ConsentCookie(StoredRecord("declined", <<"2.0">>))>>

\* Stored values that are no consent record: garbage, a bad escape, an
\* unknown status, JSON null, an object without status, empty, a number.
MalformedValues ==
    { <<"garbage">>,
      <<"%">>,
      encodeURIComponent(StatusOnly("maybe")),
      <<"null">>,
      encodeURIComponent(<<"{", "}">>),
      <<>>,
      <<"0">>,
      encodeURIComponent(<<"{">> \o Quote(<<"status">>) \o <<":">> \o Quote(<<"accepted">>)) }

InitialJars ==
    { <<>>, <<ThemeCookie>>, JarAccepted, JarDeclined }
        \cup { <<ConsentCookie(raw)>> : raw \in MalformedValues }

(***************************************************************************)
(* The methods.  A method maps the mutable state it sees, a record st, to  *)
(* the state it leaves; st.threw says an exception is propagating, and a   *)
(* statement after a throw does not run.  The toast of showSuccessMessage  *)
(* and the page hooks of enableBasicFeatures / enableEnhancedFeatures      *)
(* (window.init3DScene, body classes, ...) touch none of this state and    *)
(* are left out.                                                           *)
(***************************************************************************)
Snapshot ==
    [jar |-> jar, sessionStorage |-> sessionStorage, bannerShow |-> bannerShow,
     consentStatus |-> consentStatus, scripts |-> scripts, fbq |-> fbq,
     requestLog |-> {}, dispatched |-> <<>>, setCalls |-> 0, other |-> other,
     threw |-> FALSE]

\* The decision the code sees in a status value: anything but the two
\* strings falls through to the "no consent given yet" branch (lines 74-86).
DecisionOf(status) ==
    IF status = ACCEPTED THEN "accepted"
    ELSE IF status = DECLINED THEN "declined"
    ELSE "unset"

\* showBanner (lines 104-115)
showBanner(st) == IF ~hasBanner THEN st ELSE [st EXCEPT !.bannerShow = TRUE]

\* hideBanner (lines 117-122)
hideBanner(st) == IF ~hasBanner THEN st ELSE [st EXCEPT !.bannerShow = FALSE]

\* The cookieConsentChanged event (lines 154-157) and what its listeners
\* find when document.dispatchEvent runs them: the instance's status and
\* the cookies of the document.
CustomEvent(status, memory, cookies) ==
    [detail |-> Str(status), memory |-> memory, cookies |-> cookies]

\* Mutant: the event is dispatched before the cookie is written.
setConsentStatus_notify_first(st, status, now) ==
    LET st1 == [st EXCEPT !.consentStatus = Str(status), !.setCalls = @ + 1,
                          !.dispatched = Append(@, CustomEvent(status, Str(status), st.jar))]
        value == JSONstringify(status, toISOString(now), RecordVersion(variant))
        w == setCookie(variant, st1.jar, cookieName, value, cookieExpiry, https)
    IN  IF w.threw THEN [st1 EXCEPT !.threw = TRUE] ELSE [st1 EXCEPT !.jar = w.jar]

\* setConsentStatus (lines 142-158, 521-537)
setConsentStatus(st, status, now) ==
    LET st1 == [st EXCEPT !.consentStatus = Str(status), !.setCalls = @ + 1]
        value == JSONstringify(status, toISOString(now), RecordVersion(variant))
        w == setCookie(variant, st1.jar, cookieName, value, cookieExpiry, https)
    IN  IF w.threw THEN [st1 EXCEPT !.threw = TRUE]
        ELSE [st1 EXCEPT !.jar = w.jar,
                         !.dispatched = Append(@, CustomEvent(status, st1.consentStatus, w.jar))]

\* loadScript (lines 266-296)
loadScript(st, src, category) ==
    LET logged == [st EXCEPT !.requestLog = @ \cup
                       {[src |-> src, category |-> category,
                         decision |-> DecisionOf(st.consentStatus)]}]
    IN  IF \E i \in DOMAIN st.scripts : st.scripts[i].src = src
        THEN logged
        ELSE [logged EXCEPT !.scripts =
                                Append(@, ScriptElement(src, category, "loading"))]

RECURSIVE LoadEach(_, _, _)
\* list.forEach(scriptPath => this.loadScript(scriptPath, category))
LoadEach(st, list, category) ==
    IF Len(list) = 0 THEN st
    ELSE LoadEach(loadScript(st, Head(list), category), Tail(list), category)

\* Mutant: the essential loader also walks the analytics list.
loadEssentialScripts_analytics(st) ==
    LoadEach(LoadEach(st, scriptCategories.essential, "essential"),
             scriptCategories.analytics, "analytics")

\* loadEssentialScripts (lines 231-241)
loadEssentialScripts(st) == LoadEach(st, scriptCategories.essential, "essential")

\* loadAllScripts (lines 244-263)
loadAllScripts(st) ==
    LET st1 == loadEssentialScripts(st)
    IN  IF st1.consentStatus = ACCEPTED
        THEN LoadEach(LoadEach(st1, scriptCategories.analytics, "analytics"),
                      scriptCategories.external, "external")
        ELSE st1

\* Mutant: the banner is shown without recording it in the session storage.
checkConsent_no_flag(st) ==
    IF st.consentStatus = ACCEPTED THEN loadAllScripts(hideBanner(st))
    ELSE IF st.consentStatus = DECLINED THEN loadEssentialScripts(hideBanner(st))
    ELSE IF st.sessionStorage = Str(<<"true">>)
    THEN loadEssentialScripts(hideBanner(st))
    ELSE loadEssentialScripts(showBanner(st))

\* checkConsent (lines 71-102)
checkConsent(st) ==
    IF st.consentStatus = ACCEPTED THEN loadAllScripts(hideBanner(st))
    ELSE IF st.consentStatus = DECLINED THEN loadEssentialScripts(hideBanner(st))
    ELSE IF st.sessionStorage = Str(<<"true">>)
    THEN loadEssentialScripts(hideBanner(st))
    ELSE loadEssentialScripts(
             [showBanner(st) EXCEPT !.sessionStorage = Str(<<"true">>)])

\* acceptCookies (lines 124-131)
acceptCookies(st, now) ==
    [loadAllScripts(hideBanner(setConsentStatus(st, <<"accepted">>, now)))
        EXCEPT !.sessionStorage = Str(<<"true">>)]

\* A script element a decline may not touch under the mutant below.
KeptOnDecline(e) == e.state = "static" \/ e.category = "essential"

\* Mutant: declining removes the non-essential scripts the page injected.
declineCookies_unloads(st, now) ==
    LET s1 == loadEssentialScripts(hideBanner(setConsentStatus(st, <<"declined">>, now)))
    IN  [s1 EXCEPT !.sessionStorage = Str(<<"true">>),
                   !.scripts = SelectSeq(@, KeptOnDecline)]

\* Mutant: declining leaves the banner as it is.
declineCookies_no_hide(st, now) ==
    [loadEssentialScripts(setConsentStatus(st, <<"declined">>, now))
        EXCEPT !.sessionStorage = Str(<<"true">>)]

\* declineCookies (lines 133-140)
declineCookies(st, now) ==
    [loadEssentialScripts(hideBanner(setConsentStatus(st, <<"declined">>, now)))
        EXCEPT !.sessionStorage = Str(<<"true">>)]

\* Mutant: the argument is stored without being validated.
updateConsent_any(st, newStatus, now) ==
    IF newStatus = <<"accepted">> THEN loadAllScripts(setConsentStatus(st, newStatus, now))
    ELSE loadEssentialScripts(setConsentStatus(st, newStatus, now))

\* updateConsent (lines 358-368)
updateConsent(st, newStatus, now) ==
    IF newStatus = <<"accepted">> THEN loadAllScripts(setConsentStatus(st, newStatus, now))
    ELSE IF newStatus = <<"declined">>
    THEN loadEssentialScripts(setConsentStatus(st, newStatus, now))
    ELSE st

\* Mutant: the in-memory status survives the reset.
resetConsent_keeps_status(st) ==
    showBanner([st EXCEPT !.jar = deleteCookie(@, cookieName)])

\* Mutant: the cookie survives the reset.
resetConsent_keeps_cookie(st) == showBanner([st EXCEPT !.consentStatus = Null])

\* Mutant: the reset does not bring the banner back.
resetConsent_no_banner(st) ==
    [st EXCEPT !.jar = deleteCookie(@, cookieName), !.consentStatus = Null]

\* resetConsent (lines 370-374, 828-832)
resetConsent(st) ==
    showBanner([st EXCEPT !.jar = deleteCookie(@, cookieName),
                          !.consentStatus = Null])

\* hasConsent (lines 354-356)
hasConsent == consentStatus = ACCEPTED

\* isCategoryAllowed (lines 376-386)
isCategoryAllowed(category) ==
    IF consentStatus = ACCEPTED THEN TRUE
    ELSE IF consentStatus = DECLINED THEN category = "essential"
    ELSE FALSE

\* getDetailedConsent (lines 388-395)
getDetailedConsent ==
    [analytics |-> consentStatus = ACCEPTED,
     marketing |-> consentStatus = ACCEPTED,
     essential |-> TRUE,
     preferences |-> consentStatus = ACCEPTED]

(***************************************************************************)
(* The methods of the legacy class (lines 427-900)                         *)
(***************************************************************************)
\* !value for the values JSON.parse and getCookie yield
Falsy(val) ==
    \/ val.t \in {"null", "undefined"}
    \/ val \in {Num("0"), Bool("false"), Str(<<>>)}

\* getConsentData (lines 804-814): the parsed record, null, or a thrown
\* URIError
getConsentData_old(cookies) ==
    LET cookieValue == getCookie(cookies, cookieName)
    IN  IF cookieValue.t = "throw" THEN cookieValue
        ELSE IF Falsy(cookieValue) THEN Null
        ELSE LET parsed == JSONparse(cookieValue.v)
             IN  IF parsed.ok THEN parsed.val ELSE Null

\* getDetailedConsent (lines 848-866); with a thrown getConsentData nothing
\* is returned
getDetailedConsent_old ==
    LET consentData == getConsentData_old(jar)
    IN  IF consentData.t # "throw" /\ Falsy(consentData)
        THEN [analytics |-> FALSE, marketing |-> FALSE, essential |-> TRUE,
              preferences |-> FALSE, threw |-> FALSE]
        ELSE [analytics |-> consentStatus = ACCEPTED,
              marketing |-> consentStatus = ACCEPTED,
              essential |-> TRUE,
              preferences |-> consentStatus = ACCEPTED,
              threw |-> consentData.t = "throw"]

\* loadGoogleAnalytics (lines 608-630): appends the script, no duplicate check
loadGoogleAnalytics_old(st) ==
    IF st.consentStatus = ACCEPTED
    THEN [st EXCEPT !.scripts = Append(@, ScriptElement(GoogleAnalyticsSrc,
                                                         "analytics", "loading")),
                    !.requestLog = @ \cup
                        {[src |-> GoogleAnalyticsSrc, category |-> "analytics",
                          decision |-> DecisionOf(st.consentStatus)]}]
    ELSE st

\* loadFacebookPixel (lines 632-647): the stub returns when fbq exists, else
\* it defines fbq and inserts the script before the document's first script
loadFacebookPixel_old(st) ==
    IF st.consentStatus = ACCEPTED /\ ~st.fbq
    THEN [st EXCEPT !.fbq = TRUE,
                    !.scripts = <<ScriptElement(FacebookPixelSrc, "marketing",
                                                "loading")>> \o @,
                    !.requestLog = @ \cup
                        {[src |-> FacebookPixelSrc, category |-> "marketing",
                          decision |-> DecisionOf(st.consentStatus)]}]
    ELSE st

\* loadAcceptedCookies (lines 590-598)
loadAcceptedCookies_old(st) ==
    IF st.threw THEN st ELSE loadFacebookPixel_old(loadGoogleAnalytics_old(st))

\* loadSessionManagement / loadSecurityFeatures (lines 662-676): store a
\* random identifier under `name` for one day unless one is stored
StoreIdentifier_old(st, name, identifier) ==
    IF st.threw THEN st
    ELSE LET have == getCookie(st.jar, name)
         IN  IF have.t = "throw" THEN [st EXCEPT !.threw = TRUE]
             ELSE IF have.t = "null" \/ have.v = <<>>
             THEN LET w == setCookie(variant, st.jar, name, <<identifier>>, 1, https)
                  IN  [st EXCEPT !.jar = w.jar, !.threw = w.threw]
             ELSE st

\* loadEssentialCookies (lines 600-606)
loadEssentialCookies_old(st) ==
    StoreIdentifier_old(StoreIdentifier_old(st, "session-id", "session_r4nd0m"),
                        "csrf-token", "csrf_r4nd0m")

\* checkConsent (lines 475-486)
checkConsent_old(st) ==
    IF st.consentStatus = Null THEN showBanner(st)
    ELSE IF st.consentStatus = ACCEPTED THEN loadAcceptedCookies_old(st)
    ELSE IF st.consentStatus = DECLINED THEN loadEssentialCookies_old(st)
    ELSE st

\* acceptCookies (lines 507-512); a throwing setConsentStatus ends the handler
acceptCookies_old(st, now) ==
    LET s1 == setConsentStatus(st, <<"accepted">>, now)
    IN  IF s1.threw THEN s1 ELSE loadAcceptedCookies_old(hideBanner(s1))

\* declineCookies (lines 514-519)
declineCookies_old(st, now) ==
    LET s1 == setConsentStatus(st, <<"declined">>, now)
    IN  IF s1.threw THEN s1 ELSE loadEssentialCookies_old(hideBanner(s1))

\* updateConsent (lines 816-826)
updateConsent_old(st, newStatus, now) ==
    LET s1 == setConsentStatus(st, newStatus, now)
    IN  IF newStatus = <<"accepted">>
        THEN IF s1.threw THEN s1 ELSE loadAcceptedCookies_old(s1)
        ELSE IF newStatus = <<"declined">>
        THEN IF s1.threw THEN s1 ELSE loadEssentialCookies_old(s1)
        ELSE st

(***************************************************************************)
(* Construction (lines 7-39, 428-445)                                      *)
(***************************************************************************)
\* src.includes(pattern), for the sources a page's markup carries: the
\* catalogue's identifiers verbatim
Includes(src, pattern) == src = pattern

\* isEssentialScript (lines 226-228)
isEssentialScript(src) ==
    \E i \in DOMAIN scriptCategories.essential :
        Includes(src, scriptCategories.essential[i])

\* blockNonEssentialScripts (lines 212-223): marks the tags, removes nothing
blockNonEssentialScripts(scr) ==
    [i \in DOMAIN scr |->
        IF isEssentialScript(scr[i].src) THEN scr[i]
        ELSE [scr[i] EXCEPT !.blocked = TRUE]]

\* init of the first class (lines 31-39) after the constructor's own lines
Construct(st) ==
    LET st1 == [st EXCEPT !.scripts = blockNonEssentialScripts(@)]
    IN  IF hasBanner THEN checkConsent(st1) ELSE st1

\* init of the legacy class (lines 440-445)
Construct_old(st) == IF hasBanner THEN checkConsent_old(st) ELSE st

(***************************************************************************)
(* Actions                                                                 *)
(***************************************************************************)
\* The banner went from Hidden to Shown in this step with no decision in memory.
ShownUnset(st) ==
    ~bannerShow /\ st.bannerShow /\ DecisionOf(st.consentStatus) = "unset"

\* The state a handler leaves behind; call names the operation and decision
\* what it asked for.
Commit(st, call, decision) ==
    /\ lastCall' = call
    /\ lastDecision' = decision
    /\ shownUnset' = (shownUnset \/ ShownUnset(st))
    /\ shownByInit' = (shownByInit \/ (ShownUnset(st) /\ call = "init"))
    /\ jar' = st.jar
    /\ sessionStorage' = st.sessionStorage
    /\ bannerShow' = st.bannerShow
    /\ consentStatus' = st.consentStatus
    /\ scripts' = st.scripts
    /\ fbq' = st.fbq
    /\ requestLog' = st.requestLog
    /\ dispatched' = st.dispatched
    /\ setCalls' = st.setCalls
    /\ other' = st.other

\* The same state seen from the second instance: `this` is the other one.
Swap(st) == [st EXCEPT !.consentStatus = st.other, !.other = st.consentStatus]

AnalyticsTags(scr) == Cardinality({i \in DOMAIN scr : scr[i].src = GoogleAnalyticsSrc})

\* The legacy class may inject one more analytics tag.
RoomToInject == variant = "legacy" => AnalyticsTags(scripts) < MaxInjections

Init ==
    /\ variant \in {"gdpr", "legacy"}
    /\ https \in BOOLEAN
    /\ jar \in InitialJars
    /\ sessionStorage = Null
    /\ phase = "parsed"
    /\ hasBanner \in BOOLEAN
    /\ bannerShow = FALSE
    /\ listening = FALSE
    /\ exposed = FALSE
    /\ consentStatus = Undefined
    /\ scripts \in Markups
    /\ fbq = FALSE
    /\ requestLog = {}
    /\ dispatched = <<>>
    /\ setCalls = 0
    /\ other = NoInstance
    /\ lastDecision = (IF jar = JarAccepted THEN "accepted"
                       ELSE IF jar = JarDeclined THEN "declined" ELSE "unset")
    /\ lastCall = "none"
    /\ shownUnset = FALSE
    /\ shownByInit = FALSE

\* DOMContentLoaded: window.cookieManager = new CookieManager() (lines 412-415).
\* A constructor that throws leaves window.cookieManager unassigned.
DOMContentLoaded ==
    /\ phase = "parsed"
    /\ phase' = "live"
    /\ LET read == getConsentStatus(jar)
           st0 == [Snapshot EXCEPT !.consentStatus = read]
           st1 == IF variant = "gdpr" THEN Construct(st0) ELSE Construct_old(st0)
       IN  IF read.t = "throw"
           THEN /\ UNCHANGED <<jar, sessionStorage, bannerShow, consentStatus,
                               scripts, fbq, lastDecision, shownUnset, shownByInit,
                               listening, exposed, other>>
                /\ requestLog' = {}
                /\ dispatched' = <<>>
                /\ setCalls' = 0
                /\ lastCall' = "init"
           ELSE /\ Commit(st1, "init", lastDecision)
                /\ listening' = hasBanner
                /\ exposed' = ~st1.threw
    /\ UNCHANGED <<variant, https, hasBanner>>

\* The visitor opens another page of the site in the same session: a new
\* document, the cookies and the session storage stay.
Navigate ==
    /\ phase = "live"
    /\ phase' = "parsed"
    /\ hasBanner' \in BOOLEAN
    /\ scripts' \in Markups
    /\ bannerShow' = FALSE
    /\ listening' = FALSE
    /\ exposed' = FALSE
    /\ consentStatus' = Undefined
    /\ fbq' = FALSE
    /\ requestLog' = {}
    /\ dispatched' = <<>>
    /\ setCalls' = 0
    /\ other' = NoInstance
    /\ lastCall' = "none"
    /\ UNCHANGED <<variant, https, jar, sessionStorage, lastDecision, shownUnset,
                   shownByInit>>

\* The browsing session ends and a new one opens a page: the session storage
\* is cleared, the cookies stay.
EndSession ==
    /\ phase = "live"
    /\ phase' = "parsed"
    /\ sessionStorage' = Null
    /\ shownUnset' = FALSE
    /\ shownByInit' = FALSE
    /\ lastCall' = "none"
    /\ hasBanner' \in BOOLEAN
    /\ scripts' \in Markups
    /\ bannerShow' = FALSE
    /\ listening' = FALSE
    /\ exposed' = FALSE
    /\ consentStatus' = Undefined
    /\ fbq' = FALSE
    /\ requestLog' = {}
    /\ dispatched' = <<>>
    /\ setCalls' = 0
    /\ other' = NoInstance
    /\ UNCHANGED <<variant, https, jar, lastDecision>>

\* Click on #accept-cookies (lines 43-46, 449-451): the listener of every
\* instance that registered one runs, in the order of registration
ClickAccept ==
    /\ phase = "live" /\ listening /\ RoomToInject
    /\ \E now \in Clock :
           LET s1 == IF variant = "gdpr" THEN acceptCookies(Snapshot, now)
                     ELSE acceptCookies_old(Snapshot, now)
           IN  Commit(IF other = NoInstance THEN s1
                      ELSE Swap(acceptCookies(Swap(s1), now)),
                      "accept", "accepted")
    /\ UNCHANGED <<variant, https, phase, hasBanner, listening, exposed>>

\* Click on #decline-cookies (lines 49-53, 454-457)
ClickDecline ==
    /\ phase = "live" /\ listening
    /\ \E now \in Clock :
           LET s1 == IF variant = "gdpr" THEN declineCookies(Snapshot, now)
                     ELSE declineCookies_old(Snapshot, now)
           IN  Commit(IF other = NoInstance THEN s1
                      ELSE Swap(declineCookies(Swap(s1), now)),
                      "decline", "declined")
    /\ UNCHANGED <<variant, https, phase, hasBanner, listening, exposed>>

\* Click outside the shown banner (lines 57-61, 461-465)
ClickOutside ==
    /\ phase = "live" /\ listening /\ bannerShow
    /\ Commit(hideBanner(Snapshot), "other", lastDecision)
    /\ UNCHANGED <<variant, https, phase, hasBanner, listening, exposed>>

\* Mutant: Escape counts as declining.
PressEscape_declines ==
    /\ phase = "live" /\ listening /\ bannerShow
    /\ \E now \in Clock :
           Commit(hideBanner(setConsentStatus(Snapshot, <<"declined">>, now)),
                  "other", lastDecision)
    /\ UNCHANGED <<variant, https, phase, hasBanner, listening, exposed>>

\* Escape pressed while the banner is shown (lines 64-68, 468-472)
PressEscape ==
    /\ phase = "live" /\ listening /\ bannerShow
    /\ Commit(hideBanner(Snapshot), "other", lastDecision)
    /\ UNCHANGED <<variant, https, phase, hasBanner, listening, exposed>>

\* Values a caller may pass to updateConsent.
UpdateArguments == {<<"accepted">>, <<"declined">>, <<"maybe">>, <<"Accepted">>}

\* window.cookieManager.updateConsent(newStatus) for one argument
UpdateConsentWith(newStatus) ==
    /\ phase = "live" /\ exposed /\ RoomToInject
    /\ \E now \in Clock :
           Commit(IF variant = "gdpr" THEN updateConsent(Snapshot, newStatus, now)
                  ELSE updateConsent_old(Snapshot, newStatus, now),
                  "update",
                  IF DecisionOf(Str(newStatus)) = "unset" THEN lastDecision
                  ELSE DecisionOf(Str(newStatus)))
    /\ UNCHANGED <<variant, https, phase, hasBanner, listening, exposed>>

\* window.cookieManager.updateConsent(newStatus)
CallUpdateConsent == \E newStatus \in UpdateArguments : UpdateConsentWith(newStatus)

\* window.cookieManager.resetConsent()
CallResetConsent ==
    /\ phase = "live" /\ exposed
    /\ Commit(resetConsent(Snapshot), "reset", "unset")
    /\ UNCHANGED <<variant, https, phase, hasBanner, listening, exposed>>

\* Mutant: a failed fetch is started again with a new script element.
ScriptSettles_retry ==
    /\ phase = "live"
    /\ \E i \in DOMAIN scripts, outcome \in {"loaded", "failed"} :
           /\ scripts[i].state = "loading"
           /\ scripts' =
                  IF outcome = "failed"
                  THEN Append([scripts EXCEPT ![i].state = outcome],
                              ScriptElement(scripts[i].src, scripts[i].category,
                                            "loading"))
                  ELSE [scripts EXCEPT ![i].state = outcome]
    /\ dispatched' = <<>>
    /\ setCalls' = 0
    /\ requestLog' = {}
    /\ lastCall' = "other"
    /\ UNCHANGED <<variant, https, jar, sessionStorage, phase, hasBanner,
                   bannerShow, listening, exposed, consentStatus, fbq, other,
                   lastDecision, shownUnset, shownByInit>>

\* script.onload / script.onerror (lines 289-295): the fetch of an injected
\* script ends; the handlers only log.
ScriptSettles ==
    /\ phase = "live"
    /\ \E i \in DOMAIN scripts, outcome \in {"loaded", "failed"} :
           /\ scripts[i].state = "loading"
           /\ scripts' = [scripts EXCEPT ![i].state = outcome]
    /\ dispatched' = <<>>
    /\ setCalls' = 0
    /\ requestLog' = {}
    /\ lastCall' = "other"
    /\ UNCHANGED <<variant, https, jar, sessionStorage, phase, hasBanner,
                   bannerShow, listening, exposed, consentStatus, fbq, other,
                   lastDecision, shownUnset, shownByInit>>

Next ==
    \/ DOMContentLoaded
    \/ Navigate
    \/ EndSession
    \/ ClickAccept
    \/ ClickDecline
    \/ ClickOutside
    \/ PressEscape
    \/ CallUpdateConsent
    \/ CallResetConsent
    \/ ScriptSettles

Spec == Init /\ [][Next]_vars

(***************************************************************************)
(* Pages on which a script constructs a second CookieManager (first class) *)
(***************************************************************************)
\* new CookieManager() by a page script after the page's own instance exists:
\* the constructor reads the store, marks the markup's scripts again and
\* runs init, which registers this instance's listeners too.
ConstructSecond ==
    /\ phase = "live" /\ exposed /\ variant = "gdpr" /\ other = NoInstance
    /\ getConsentStatus(jar).t # "throw"
    /\ Commit(Swap(Construct(Swap([Snapshot EXCEPT
                                      !.other = getConsentStatus(jar)]))),
              "other", lastDecision)
    /\ UNCHANGED <<variant, https, phase, hasBanner, listening, exposed>>

\* updateConsent(newStatus) called on the second instance
SecondUpdateConsent ==
    /\ phase = "live" /\ other # NoInstance
    /\ \E newStatus \in UpdateArguments, now \in Clock :
           Commit(Swap(updateConsent(Swap(Snapshot), newStatus, now)),
                  "update",
                  IF DecisionOf(Str(newStatus)) = "unset" THEN lastDecision
                  ELSE DecisionOf(Str(newStatus)))
    /\ UNCHANGED <<variant, https, phase, hasBanner, listening, exposed>>

\* resetConsent() called on the second instance
SecondResetConsent ==
    /\ phase = "live" /\ other # NoInstance
    /\ Commit(Swap(resetConsent(Swap(Snapshot))), "reset", "unset")
    /\ UNCHANGED <<variant, https, phase, hasBanner, listening, exposed>>

InitMulti == Init /\ variant = "gdpr"

\* One page lifetime: the page's own instance, the second one, and the
\* operations that write a decision.
NextMulti ==
    \/ DOMContentLoaded
    \/ ClickAccept
    \/ ClickDecline
    \/ CallUpdateConsent
    \/ CallResetConsent
    \/ ConstructSecond
    \/ SecondUpdateConsent
    \/ SecondResetConsent

SpecMulti == InitMulti /\ [][NextMulti]_vars

(***************************************************************************)
(* Properties                                                              *)
(***************************************************************************)
\* The decision a fresh read of the store yields.
PersistedDecision == DecisionOf(getConsentStatus(jar))

\* No script of a non-essential category has been injected on this page:
\* every such resource is still NotRequested.
NoNonEssentialRequested(scr) ==
    \A i \in DOMAIN scr : scr[i].state # "static" => scr[i].category = "essential"

\* The last step requested exactly the essential scripts.
OnlyEssentialRequested ==
    /\ \A e \in requestLog : e.category = "essential"
    /\ {e.src : e \in requestLog} = Range(scriptCategories.essential)

\* C1: a script of a non-essential category is requested only at a moment
\* when the in-memory decision is Accepted; with the decision Unset or
\* Declined no operation requests one.
C1_ConsentGating ==
    \A e \in requestLog : e.category # "essential" => e.decision = "accepted"

C1_Witness ==
    /\ variant = "gdpr"
    /\ lastCall = "accept"
    /\ \E e \in requestLog : e.category = "external" /\ e.decision = "accepted"

\* C2: isCategoryAllowed('essential') is true whatever the decision is,
\* Unset included.
C2_EssentialAlwaysAllowed == exposed => isCategoryAllowed("essential")

\* C3: for every non-essential category, isCategoryAllowed is true exactly
\* when the latest decision event chose Accepted (first class).
C3_NonEssentialIffAccepted ==
    (variant = "gdpr" /\ exposed) =>
        \A c \in NonEssential : isCategoryAllowed(c) <=> (lastDecision = "accepted")

C3_Witness ==
    /\ variant = "gdpr" /\ exposed
    /\ lastCall = "update" /\ lastDecision = "accepted"
    /\ isCategoryAllowed("marketing")

\* C4: a fresh read of the store never throws and yields Accepted or
\* Declined when the stored status is exactly that, and null otherwise.
C4_ReadIsTotal == getConsentStatus(jar) \in {Null, ACCEPTED, DECLINED}

\* C5: after setConsentStatus(d) a fresh read of the store yields d, until
\* the next write or erase and whatever the store held before (first class).
C5_RoundTrip ==
    (variant = "gdpr" /\ lastDecision # "unset") =>
        getConsentStatus(jar) = Str(<<lastDecision>>)

C5_Witness ==
    /\ variant = "gdpr"
    /\ lastCall = "decline"
    /\ getConsentStatus(jar) = DECLINED

\* C6: once a controller exists, the store holds a consent record exactly
\* when the in-memory decision is not Unset, and the record's status is the
\* in-memory decision (first class).
C6_RecordIffDecided ==
    (variant = "gdpr" /\ exposed) => PersistedDecision = DecisionOf(consentStatus)

C6_Witness ==
    /\ variant = "gdpr" /\ exposed
    /\ lastCall = "reset"
    /\ getCookie(jar, cookieName) = Null
    /\ consentStatus = Null

\* C7: with an Accepted record stored before the page loads, initialisation
\* alone requests every script of every category of the catalogue.
C7_InitRequestsEveryCategory ==
    (variant = "gdpr" /\ hasBanner /\ exposed /\ lastCall = "init"
        /\ consentStatus = ACCEPTED) =>
        \A c \in Categories : \A src \in Range(scriptCategories[c]) :
            \E e \in requestLog : e.src = src /\ e.category = c

\* A page with the banner is initialised and the store holds no decision.
InitUnset ==
    /\ phase = "parsed" /\ phase' = "live" /\ hasBanner
    /\ getConsentStatus(jar).t # "throw"
    /\ PersistedDecision = "unset"

\* C8: initialisation with no decision shows the banner, sets the session
\* flag and requests only essential scripts when the flag was not set, and
\* keeps the banner hidden and requests only essential scripts when it was.
C8_SessionFlagScenario ==
    [][InitUnset =>
         /\ OnlyEssentialRequested'
         /\ IF sessionStorage = Null
            THEN bannerShow' /\ sessionStorage' = Str(<<"true">>)
            ELSE ~bannerShow']_vars

\* The banner goes from Hidden to Shown with no decision in memory.
ShowStep == ~bannerShow /\ bannerShow' /\ DecisionOf(consentStatus') = "unset"

\* C9 as claimed: within a session the banner goes from Hidden to Shown at
\* most once while no decision exists (first class).
C9_ShownAtMostOnce == [][(variant = "gdpr" /\ ShowStep) => ~shownUnset]_vars

\* C9 as amended: within a session a page's initialisation takes the banner
\* from Hidden to Shown at most once while no decision exists (first class).
C9_InitShowsAtMostOnce ==
    [][(variant = "gdpr" /\ phase = "parsed" /\ ShowStep) => ~shownByInit]_vars

C9_Witness ==
    /\ variant = "gdpr" /\ hasBanner /\ exposed
    /\ lastCall = "init" /\ shownByInit
    /\ ~bannerShow /\ DecisionOf(consentStatus) = "unset"

\* C10: a decline click made while no non-essential script has been
\* requested stores a record with status declined, leaves hasConsent() false
\* and the banner hidden, and requests no non-essential script (first class).
C10_DeclineLoadsNothingMore ==
    [][(variant = "gdpr" /\ lastCall' = "decline"
          /\ NoNonEssentialRequested(scripts)) =>
         /\ getConsentStatus(jar') = DECLINED
         /\ ~hasConsent'
         /\ ~bannerShow'
         /\ NoNonEssentialRequested(scripts')
         /\ \A e \in requestLog' : e.category = "essential"]_vars

C10_Witness ==
    /\ variant = "gdpr" /\ hasBanner
    /\ lastCall = "decline"
    /\ NoNonEssentialRequested(scripts)
    /\ getConsentStatus(jar) = DECLINED
    /\ ~hasConsent /\ ~bannerShow

\* A script this page injected after an accepted decision.
InjectedNonEssential(scr) ==
    \E i \in DOMAIN scr : scr[i].state # "static" /\ scr[i].category # "essential"

\* C11: resetConsent() called in any consent state erases the persisted
\* record, sets the in-memory decision to Unset (hasConsent() false, a fresh
\* read yields Unset) and leaves the banner shown on a page that has one.
C11_ResetErases ==
    lastCall = "reset" =>
        /\ getCookie(jar, cookieName) = Null
        /\ getConsentStatus(jar) = Null
        /\ consentStatus = Null
        /\ ~hasConsent
        /\ (hasBanner => bannerShow)

C11_Witness ==
    /\ lastCall = "reset" /\ hasBanner /\ bannerShow
    /\ InjectedNonEssential(scripts)
    /\ getCookie(jar, cookieName) = Null
    /\ consentStatus = Null

\* The document holds a script element for src (from the markup or injected).
InDocument(scr, src) == \E i \in DOMAIN scr : scr[i].src = src

\* C12: the accept click, from any prior consent state, sets the decision to
\* Accepted, persists it, hides the banner and requests every catalogue
\* resource that is not already Loaded or Loading, so that afterwards every
\* catalogue resource is in the document.
C12_AcceptLoadsAll ==
    (variant = "gdpr" /\ lastCall = "accept") =>
        /\ consentStatus = ACCEPTED
        /\ getConsentStatus(jar) = ACCEPTED
        /\ ~bannerShow
        /\ \A c \in Categories : \A src \in Range(scriptCategories[c]) :
               InDocument(scripts, src)

\* C13: over any sequence of operations in one page lifetime no identifier
\* is given a second load attempt: the document never holds two script
\* elements for the same identifier.
C13_OneLoadPerIdentifier ==
    \A i, j \in DOMAIN scripts : scripts[i].src = scripts[j].src => i = j

\* The step is a decline click, updateConsent('declined') or resetConsent().
DeclineOrResetStep ==
    \/ lastCall' \in {"decline", "reset"}
    \/ lastCall' = "update" /\ lastDecision' = "declined"

ValidUpdateStep == lastCall' = "update" /\ setCalls' > 0

\* C15: updateConsent(d), d accepted or declined, ends in the state the
\* corresponding click handler reaches from the same state: same in-memory
\* decision, same persisted status, banner hidden, same session flag and
\* the same requested resources (first class).
C15_UpdateSameAsClick ==
    [][(variant = "gdpr" /\ ValidUpdateStep) =>
         \E now \in Clock :
             LET click == IF lastDecision' = "accepted"
                          THEN acceptCookies(Snapshot, now)
                          ELSE declineCookies(Snapshot, now)
             IN  /\ consentStatus' = click.consentStatus
                 /\ getConsentStatus(jar') = getConsentStatus(click.jar)
                 /\ bannerShow' = click.bannerShow
                 /\ ~bannerShow'
                 /\ sessionStorage' = click.sessionStorage
                 /\ scripts' = click.scripts
                 /\ requestLog' = click.requestLog]_vars

\* The sources the last step asked loadScript for.
Requested == {e.src : e \in requestLog}

\* C16: on a page without the banner element initialisation still requests
\* the essential scripts in every consent state and, with an Accepted record
\* stored, the scripts initialisation requests when the banner is there.
C16_HeadlessGating ==
    (variant = "gdpr" /\ ~hasBanner /\ exposed /\ lastCall = "init") =>
        /\ Range(scriptCategories.essential) \subseteq Requested
        /\ consentStatus = ACCEPTED =>
               /\ Range(scriptCategories.analytics) \subseteq Requested
               /\ Range(scriptCategories.external) \subseteq Requested

\* C17: with two controller instances on one page, after any instance
\* performs accept, decline, updateConsent or resetConsent both instances
\* report the same decision (hasConsent, isCategoryAllowed and
\* getDetailedConsent depend on this.consentStatus alone).
C17_InstancesAgree ==
    (exposed /\ other # NoInstance) =>
        DecisionOf(consentStatus) = DecisionOf(other)

\* C18: every setConsentStatus call, reached by an accept click, a decline
\* click or updateConsent with a valid value, dispatches exactly one
\* cookieConsentChanged event; its detail is the decision just set, and when
\* it is dispatched the instance's decision and a fresh read of the store
\* both hold that value (first class).
C18_OneNotificationPerSet ==
    variant = "gdpr" =>
        /\ Len(dispatched) = setCalls
        /\ lastCall \in {"accept", "decline"} => setCalls = 1
        /\ \A i \in DOMAIN dispatched :
               \* a listener's fresh read is the last conjunct
               /\ dispatched[i].detail = Str(<<lastDecision>>)
               /\ dispatched[i].memory = dispatched[i].detail
               /\ getConsentStatus(dispatched[i].cookies) = dispatched[i].detail

C18_Witness ==
    /\ variant = "gdpr"
    /\ lastCall = "update" /\ setCalls = 1
    /\ InjectedNonEssential(scripts)
    /\ Len(dispatched) = 1
    /\ dispatched[1].detail = DECLINED
    /\ getConsentStatus(dispatched[1].cookies) = DECLINED

\* C19: in every reachable state getDetailedConsent() returns essential
\* true and analytics, marketing and preferences all equal to hasConsent(),
\* in both classes.
C19_FlagsMirrorDecision ==
    exposed =>
        IF variant = "gdpr"
        THEN /\ getDetailedConsent.essential
             /\ getDetailedConsent.analytics = hasConsent
             /\ getDetailedConsent.marketing = hasConsent
             /\ getDetailedConsent.preferences = hasConsent
        ELSE /\ ~getDetailedConsent_old.threw
             /\ getDetailedConsent_old.essential
             /\ getDetailedConsent_old.analytics = hasConsent
             /\ getDetailedConsent_old.marketing = hasConsent
             /\ getDetailedConsent_old.preferences = hasConsent

\* C20: a non-essential script of the page markup, marked by the blocking
\* step at construction, is requested for load when the accept transition
\* occurs: after an accept click the document holds an injected script
\* element for it (first class).
C20_WithheldThenLoaded ==
    (variant = "gdpr" /\ lastCall = "accept") =>
        \A i \in DOMAIN scripts :
            scripts[i].blocked =>
                \E j \in DOMAIN scripts :
                    /\ scripts[j].src = scripts[i].src
                    /\ scripts[j].state # "static"
                    /\ ~scripts[j].blocked

\* The step is the completion of a requested load: a script that was
\* loading is loaded or failed afterwards.
SettleStep ==
    /\ lastCall' = "other"
    /\ \E i \in DOMAIN scripts :
           /\ i \in DOMAIN scripts'
           /\ scripts[i].state = "loading"
           /\ scripts'[i].state \in {"loaded", "failed"}

\* C21: when a requested script completes as loaded or failed, in any
\* order, only that script's load state changes: every other script, the
\* decision, the persisted record, the session flag and the banner are
\* unchanged, and the completion starts no load attempt.
C21_CompletionsIndependent ==
    [][SettleStep =>
         /\ Len(scripts') = Len(scripts)
         /\ \E i \in DOMAIN scripts :
                scripts' = [scripts EXCEPT ![i].state = scripts'[i].state]
         /\ UNCHANGED <<consentStatus, jar, sessionStorage, bannerShow>>
         /\ requestLog' = {}
         /\ dispatched' = <<>>]_vars

C21_Witness ==
    /\ variant = "gdpr" /\ lastCall = "other"
    /\ consentStatus = ACCEPTED
    /\ \E i, j \in DOMAIN scripts :
           /\ i < j
           /\ scripts[i].state = "loaded"
           /\ scripts[j].state = "failed"

\* C22: dismissing the shown banner with Escape or a click outside it only
\* hides the banner: the in-memory decision, the persisted record, the
\* session flag and every script's load state are unchanged, nothing is
\* requested and no cookieConsentChanged event is dispatched.
C22_DismissOnlyHides ==
    [][(ClickOutside \/ PressEscape) =>
         /\ ~bannerShow'
         /\ UNCHANGED <<consentStatus, jar, sessionStorage, scripts>>
         /\ requestLog' = {}
         /\ setCalls' = 0
         /\ dispatched' = <<>>]_vars

C22_Witness ==
    /\ lastCall = "other" /\ hasBanner /\ ~bannerShow
    /\ \A i \in DOMAIN scripts : scripts[i].state \notin {"loaded", "failed"}
    /\ consentStatus = Null
    /\ getCookie(jar, cookieName) = Null
    /\ sessionStorage = Str(<<"true">>)

\* Arguments of updateConsent that name no decision.
InvalidArguments == UpdateArguments \ {<<"accepted">>, <<"declined">>}

\* C23: updateConsent(v) with v other than 'accepted' or 'declined' is a
\* no-op: the in-memory decision, the persisted record, the banner, the
\* session flag and the script elements are unchanged, nothing is requested
\* and no cookieConsentChanged event is dispatched.
C23_InvalidUpdateIsNoOp ==
    [][(\E v \in InvalidArguments : UpdateConsentWith(v)) =>
         /\ UNCHANGED <<consentStatus, jar, bannerShow, sessionStorage, scripts>>
         /\ requestLog' = {}
         /\ setCalls' = 0
         /\ dispatched' = <<>>]_vars

C23_Witness ==
    /\ lastCall = "update" /\ setCalls = 0
    /\ hasBanner /\ bannerShow
    /\ consentStatus = Null
    /\ getCookie(jar, cookieName) = Null

\* C24: in every reachable state the banner is shown only while the
\* in-memory decision is Unset: never with the decision Accepted or
\* Declined (first class).
C24_ShownOnlyWhileUnset ==
    (variant = "gdpr" /\ bannerShow) => DecisionOf(consentStatus) = "unset"

====
